---- MODULE Spec2Model ----
(***************************************************************************)
(* Incremental load and upsert engine of the stock-market-chatbot data     *)
(* pipelines: the SQLite upsert engine (utils/data_storage.py), the        *)
(* metadata pipeline (pipelines/data_ingestion/company_metadata.py), the   *)
(* news pipeline (pipelines/data_ingestion/company_news.py) and the        *)
(* article fetch loop (utils/data_extraction.py).                          *)
(***************************************************************************)
EXTENDS Integers, Sequences, FiniteSets, TLC

(***************************************************************************)
(* Bounds of the model.                                                    *)
(***************************************************************************)
NumSeeds == 2        \* distinct PYTHONHASHSEED values a process may start with
MaxCalls == 3        \* save_to_sqlite calls in a storage session
MaxRuns == 2         \* runs of the metadata pipeline
MaxNewsRuns == 2     \* runs of the news pipeline
MaxLogCalls == 2     \* log_published_dates calls made between the runs
MaxArticleTime == 2  \* published times of provider articles are 1..MaxArticleTime
MaxResponses == 3    \* responses scripted for a provider stub

Tickers == {"A", "B"}
Seeds == 1..NumSeeds

Range(s) == {s[i] : i \in 1..Len(s)}
Abs(n) == IF n < 0 THEN -n ELSE n
MaxOf(S) == CHOOSE x \in S : \A y \in S : y <= x

(***************************************************************************)
(* helper_funcs.generate_id: abs(hash(ticker)).  hash() of a str is salted *)
(* per process (PYTHONHASHSEED), so the value depends on the seed the      *)
(* process started with.  StrHash stands for the salted hash: signed, and  *)
(* without collisions over the tickers and seeds of the model.             *)
(***************************************************************************)
TickerIndex(t) == IF t = "A" THEN 1 ELSE 2
StrHash(seed, t) ==
    LET h == 4 * seed + TickerIndex(t)
    IN  IF (seed + TickerIndex(t)) % 2 = 1 THEN -h ELSE h
generate_id(seed, t) == Abs(StrHash(seed, t))

(***************************************************************************)
(* Python values handed to save_to_sqlite, as <<tag, payload>>:            *)
(*   <<"none", 0>>      None                                               *)
(*   <<"int", n>>       an int                                             *)
(*   <<"float", n>>     the float n.0                                      *)
(*   <<"str", s>>       a str                                              *)
(*   <<"istr", n>>      the str of the int n, as str(generate_id(..))      *)
(*   <<"list", seq>>    a list of scalars                                  *)
(*   <<"series", seq>>  a pandas Series (a column of a DataFrame), which   *)
(*                      DataFrame.items() yields and which is not a list   *)
(* `data` is [none, items]: none = TRUE stands for data = None.            *)
(***************************************************************************)
PyNone == <<"none", 0>>
PyInt(n) == <<"int", n>>
PyFloat(n) == <<"float", n>>
PyStr(s) == <<"str", s>>
PyList(s) == <<"list", s>>
PySeries(s) == <<"series", s>>
NoneData == [none |-> TRUE, items |-> [k \in {} |-> PyNone]]
DictData(d) == [none |-> FALSE, items |-> d]

(***************************************************************************)
(* SQLite cells, as <<tag, payload>>: <<"null", 0>>, <<"real", n>>,        *)
(* <<"text", s>>, <<"itext", n>> (the text "n"), <<"ftext", n>> (the text  *)
(* "n.0"), <<"rtext", seq>> (the text repr of a Series).                   *)
(***************************************************************************)
Null == <<"null", 0>>

\* save_to_sqlite, lines 256-257: a list stays, anything else becomes [v]
Wrapped(items) ==
    [k \in DOMAIN items |->
        IF items[k][1] = "list" THEN items[k][2] ELSE <<items[k]>>]

\* pd.DataFrame(wrapped_data): the columns must have one length
SameLength(w) == \A j, k \in DOMAIN w : Len(w[j]) = Len(w[k])
NumRows(w) == IF DOMAIN w = {} THEN 0 ELSE Len(w[CHOOSE k \in DOMAIN w : TRUE])

\* save_to_sqlite, lines 260-261: the ticker and ticker_id columns
WithTicker(w, seed, ticker) ==
    LET n == NumRows(w)
    IN  [k \in DOMAIN w \cup {"ticker", "ticker_id"} |->
            IF k = "ticker" THEN [i \in 1..n |-> PyStr(ticker)]
            ELSE IF k = "ticker_id"
                 THEN [i \in 1..n |-> <<"istr", generate_id(seed, ticker)>>]
                 ELSE w[k]]

\* the dtype pandas infers for a column of scalars
Dtype(col) ==
    IF Len(col) > 0 /\ \A i \in 1..Len(col) : col[i][1] = "int" THEN "int64"
    ELSE IF /\ \A i \in 1..Len(col) : col[i][1] \in {"int", "float", "none"}
            /\ \E i \in 1..Len(col) : col[i][1] \in {"int", "float"}
         THEN "float64"
         ELSE "object"

\* astype(str) of one value of an object column
AsStr(v) ==
    CASE v[1] = "str" -> <<"text", v[2]>>
      [] v[1] = "istr" -> <<"itext", v[2]>>
      [] v[1] = "int" -> <<"itext", v[2]>>
      [] v[1] = "float" -> <<"ftext", v[2]>>
      [] v[1] = "none" -> <<"text", "None">>
      [] v[1] = "series" -> <<"rtext", v[2]>>
      [] OTHER -> <<"text", "?">>

\* a value of a float64 column as SQLite receives it (NaN is sent as NULL)
AsReal(v) == IF v[1] \in {"int", "float"} THEN <<"real", v[2]>> ELSE Null

\* preprocess_dataframe and df.where(pd.notnull(df), None): the cells of a column
PreprocessColumn(col) ==
    IF Dtype(col) \in {"int64", "float64"}
    THEN [i \in 1..Len(col) |-> AsReal(col[i])]
    ELSE [i \in 1..Len(col) |-> AsStr(col[i])]

\* handle_numeric_columns left out: every column keeps the dtype pandas inferred
DtypeKept(col) == Dtype(col)

\* the dtype of a column after preprocess_dataframe (handle_numeric_columns)
DtypeAfter(col) == IF Dtype(col) \in {"int64", "float64"} THEN "float64" ELSE "object"

map_dtype_to_sqlite(dtype) ==
    IF dtype = "int64" THEN "INTEGER"
    ELSE IF dtype = "float64" THEN "REAL"
    ELSE "TEXT"

(***************************************************************************)
(* The DataFrame save_to_sqlite builds: cols (column -> SQLite type of its *)
(* dtype) and rows (a sequence of column -> cell).                         *)
(***************************************************************************)
Frame(seed, data, ticker) ==
    LET w == WithTicker(Wrapped(data.items), seed, ticker)
        n == NumRows(Wrapped(data.items))
    IN  [cols |-> [c \in DOMAIN w |-> map_dtype_to_sqlite(DtypeAfter(w[c]))],
         rows |-> [i \in 1..n |-> [c \in DOMAIN w |-> PreprocessColumn(w[c])[i]]]]

(***************************************************************************)
(* A table: exists, cols (column -> declared type), notnull and key (the   *)
(* columns of the PRIMARY KEY or UNIQUE constraint), rows in rowid order.  *)
(***************************************************************************)
NoTable ==
    [exists |-> FALSE, cols |-> [c \in {} |-> "TEXT"], notnull |-> {},
     key |-> {}, rows |-> <<>>]

\* SQLite column affinity applied to a cell stored in a column of type ty
Affinity(ty, cell) ==
    IF ty = "REAL" /\ cell[1] \in {"itext", "ftext"} THEN <<"real", cell[2]>>
    ELSE IF ty = "TEXT" /\ cell[1] = "real" THEN <<"ftext", cell[2]>>
    ELSE cell

\* create_table_if_not_exists: the CREATE TABLE fails (and is only logged) when
\* a key column is no column of the frame
CreateOk(df, ids) == Range(ids) \subseteq DOMAIN df.cols
create_table_if_not_exists(tbl, df, ids) ==
    IF CreateOk(df, ids)
    THEN [exists |-> TRUE, cols |-> df.cols, notnull |-> Range(ids),
          key |-> Range(ids), rows |-> <<>>]
    ELSE tbl

\* (mutant: the table is rebuilt with the columns and types of the frame)
rebuild_columns(tbl, df) ==
    [tbl EXCEPT
        !.cols = df.cols,
        !.rows = [j \in 1..Len(tbl.rows) |->
                    [c \in DOMAIN df.cols |-> IF c \in DOMAIN tbl.cols THEN tbl.rows[j][c]
                                              ELSE Null]]]
\* add_missing_columns: ALTER TABLE ADD COLUMN for every column the table lacks
add_missing_columns(tbl, df) ==
    LET all == DOMAIN tbl.cols \cup DOMAIN df.cols
    IN  [tbl EXCEPT
            !.cols = [c \in all |-> IF c \in DOMAIN tbl.cols THEN tbl.cols[c]
                                    ELSE df.cols[c]],
            !.rows = [j \in 1..Len(tbl.rows) |->
                        [c \in all |-> IF c \in DOMAIN tbl.cols THEN tbl.rows[j][c]
                                       ELSE Null]]]

(***************************************************************************)
(* upsert_data: INSERT .. ON CONFLICT(id_columns) DO UPDATE SET every      *)
(* non-key column of the frame, one row after the other (executemany).     *)
(***************************************************************************)
\* (mutant: no conflict is ever detected, every record is inserted)
KeyMatchNever(tbl, old, r) == FALSE
\* ON CONFLICT(id_columns): the stored row old has the key of the record r
KeyMatch(tbl, old, r) == \A c \in tbl.key : old[c] = r[c]

\* (mutant: ON CONFLICT DO NOTHING)
UpdateColumnsNone(tbl, r) == {}
\* (mutant: DO UPDATE SET assigns every non-key column of the table)
UpdateColumnsAll(tbl, r) == DOMAIN tbl.cols \ tbl.key
\* the columns DO UPDATE SET assigns: the frame's columns outside the key
UpdateColumns(tbl, r) == DOMAIN r \ tbl.key

\* (mutant: the write replaces the contents of the table)
ReplaceTable(tbl, r) ==
    [tbl EXCEPT !.rows =
        <<[c \in DOMAIN tbl.cols |-> IF c \in DOMAIN r THEN r[c] ELSE Null]>>]
\* one INSERT .. ON CONFLICT DO UPDATE of a row that passed the NOT NULL check
UpsertRow(tbl, r) ==
    IF \E j \in 1..Len(tbl.rows) : KeyMatch(tbl, tbl.rows[j], r)
    THEN LET j == CHOOSE j \in 1..Len(tbl.rows) : KeyMatch(tbl, tbl.rows[j], r)
         IN  [tbl EXCEPT !.rows[j] =
                [c \in DOMAIN tbl.cols |->
                    IF c \in UpdateColumns(tbl, r)
                    THEN (IF c \in DOMAIN r THEN r[c] ELSE Null)
                    ELSE tbl.rows[j][c]]]
    ELSE [tbl EXCEPT !.rows = Append(tbl.rows,
                [c \in DOMAIN tbl.cols |-> IF c \in DOMAIN r THEN r[c] ELSE Null])]

\* a row of the frame as the table stores it
StoredRow(tbl, df, i) ==
    [c \in DOMAIN df.cols |-> Affinity(tbl.cols[c], df.rows[i][c])]

\* NOT NULL constraint failed: a key column is NULL in the row or not in the frame
NotNullFails(tbl, r) == \E c \in tbl.notnull : c \notin DOMAIN r \/ r[c] = Null

RECURSIVE UpsertRows(_, _, _)
UpsertRows(tbl, df, i) ==
    IF i > Len(df.rows) THEN [tbl |-> tbl, failed |-> FALSE]
    ELSE LET r == StoredRow(tbl, df, i)
         IN  IF NotNullFails(tbl, r)
             THEN [tbl |-> tbl, failed |-> TRUE]   \* IntegrityError, logged only
             ELSE UpsertRows(UpsertRow(tbl, r), df, i + 1)

\* the statement is rejected as a whole: no such table, or ON CONFLICT names
\* no PRIMARY KEY or UNIQUE constraint of the table
PrepareFails(tbl, df, ids) ==
    \/ ~tbl.exists
    \/ Range(ids) # tbl.key
    \/ ~(DOMAIN df.cols \subseteq DOMAIN tbl.cols)

\* upsert_data: the exception is caught and logged by handle_sql_error; the
\* commit is skipped, the rows written before the failing one stay in the
\* connection's open transaction
upsert_data(tbl, df, ids) ==
    IF PrepareFails(tbl, df, ids) THEN [tbl |-> tbl, failed |-> TRUE]
    ELSE UpsertRows(tbl, df, 1)

(***************************************************************************)
(* save_to_sqlite on one table.  raised: the exception save_to_sqlite      *)
(* re-raises (data is None: no .items(); columns of different lengths).    *)
(* committed: upsert_data reached conn.commit().                           *)
(***************************************************************************)
SaveRaises(data) == data.none \/ ~SameLength(Wrapped(data.items))

save_to_sqlite(tbl, seed, data, ticker, ids) ==
    IF SaveRaises(data)
    THEN [tbl |-> tbl, raised |-> TRUE, committed |-> FALSE]
    ELSE LET df == Frame(seed, data, ticker)
             t1 == IF ~tbl.exists THEN create_table_if_not_exists(tbl, df, ids)
                   ELSE add_missing_columns(tbl, df)
             u == upsert_data(t1, df, ids)
         IN  [tbl |-> u.tbl, raised |-> FALSE, committed |-> ~u.failed]

(***************************************************************************)
(* The database of the metadata pipeline: the entity tables and their key  *)
(* columns (execute_company_pipeline, lines 40-59).                        *)
(***************************************************************************)
Entities ==
    <<"company_info", "balance_sheet", "income_statement", "cash_flow",
      "analyst_recommendations", "historical_data">>
TableNames == Range(Entities)
IdColumns(table) ==
    IF table = "company_info" THEN <<"ticker_id">> ELSE <<"ticker_id", "period">>

VARIABLES
    db,         \* table name -> table: company_metadata.db as the connection sees it
    seed,       \* the hash seed of the running process
    calls,      \* storage session: number of save_to_sqlite calls made
    lastCall,   \* storage session: the arguments of the last call
    dbBefore,   \* storage session: db before the last call
    lastRes,    \* storage session: what the last call returned
    repeated    \* storage session: the last call repeated the one before it

storeVars == <<db, seed, calls, lastCall, dbBefore, lastRes, repeated>>

VARIABLES
    plog,           \* pipeline_log of company_metadata.db: [exists, rows]
    failLog,        \* ./data/logs/failed_tickers.log: the lines, as [ticker, msg]
    runs,           \* runs started so far; the time of a run is its number
    pc,             \* "idle", the step of the run: "begin", "save", "log", or
                    \* "returned": the last run returned before its loop
    load_type,      \* the load_type argument of the run
    requested,      \* the tickers argument of the run, while it is in its loop
    use_failed_tickers, \* the use_failed_tickers argument of the run
    tickers,        \* the resolved ticker list of the run
    idx,            \* position in tickers of the ticker being processed
    failed_tickers, \* the failed_tickers list of the run
    mode,           \* load_type of the current ticker after the fallback
    last_run_timestamp, \* the ticker's watermark read at "begin" (0: None)
    recs,           \* what get_analyst_recommendations returned for the ticker
    ent,              \* the entity (index in Entities) the next save writes
    connOpen,       \* the connection of the run is open
    uncommitted,    \* tickers with an upsert of this run that did not commit
    marked,         \* tickers whose pipeline_log row this run inserted
    succeeded       \* tickers execute_company_pipeline returned for in this run

metaVars ==
    <<plog, failLog, runs, pc, load_type, requested, use_failed_tickers, tickers,
      idx, failed_tickers, mode, last_run_timestamp, recs, ent, connOpen,
      uncommitted, marked, succeeded>>

now == runs

\* the tickers argument: None, or a list
NoneArg == [none |-> TRUE, list |-> <<>>]
ListArg(list) == [none |-> FALSE, list |-> list]

\* no run of the metadata pipeline has started
MetaIdle ==
    /\ plog = [exists |-> FALSE, rows |-> {}]
    /\ runs = 0
    /\ pc = "idle"
    /\ load_type = "init"
    /\ requested = NoneArg
    /\ use_failed_tickers = FALSE
    /\ tickers = <<>>
    /\ idx = 0
    /\ failed_tickers = <<>>
    /\ mode = "init"
    /\ last_run_timestamp = 0
    /\ recs = "frame"
    /\ ent = 1
    /\ connOpen = FALSE
    /\ uncommitted = {}
    /\ marked = {}
    /\ succeeded = {}

(***************************************************************************)
(* The article fetcher (utils/data_extraction.fetch_articles).             *)
(* A datetime is [t, aw]: the instant and whether it is timezone-aware;    *)
(* Python raises TypeError when it compares a naive with an aware one.     *)
(* The provider holds, per ticker, a finite set of articles, one per       *)
(* published time, and answers a request with the articles published in    *)
(* the closed window [from, to], newest first, at most                     *)
(* MAX_ARTICLES_PER_REQUEST of them.                                       *)
(***************************************************************************)
\* utils/constants.py: both are read from the environment; the model runs with
\* small values instead of the defaults 10 and 100
MAX_NUM_REQUESTS == 2
MAX_ARTICLES_PER_REQUEST == 2
PoolCap == 3         \* a pooled article is counted up to PoolCap copies

Naive(t) == [t |-> t, aw |-> FALSE]
Aware(t) == [t |-> t, aw |-> TRUE]
\* utils/constants.py, lines 12-13: strptime gives a naive datetime
START_DATE == Naive(0)
\* helper_funcs.to_utc
to_utc(dt) == [dt EXCEPT !.aw = TRUE]

ArticleTimes == 1..MaxArticleTime

RECURSIVE NewestFirst(_)
NewestFirst(S) == IF S = {} THEN <<>> ELSE <<MaxOf(S)>> \o NewestFirst(S \ {MaxOf(S)})

\* the response to one GET: page 1 of the articles in [from_date, to_date]
Page(held, from_date, to_date) ==
    LET all == NewestFirst({a \in held : from_date.t <= a /\ a <= to_date.t})
    IN  SubSeq(all, 1, IF Len(all) < MAX_ARTICLES_PER_REQUEST THEN Len(all)
                       ELSE MAX_ARTICLES_PER_REQUEST)

\* lines 128-146: the for loop over the articles of a response, from the i-th
\* on.  Comparing the aware published_date with a naive bound raises TypeError
\* (err), after the article was appended.
RECURSIVE ScanPage(_, _, _, _, _)
ScanPage(page, i, list, latest, oldest) ==
    IF i > Len(page)
    THEN [articles |-> list, latest |-> latest, oldest |-> oldest, err |-> FALSE]
    ELSE IF ~latest.aw
    THEN [articles |-> Append(list, page[i]), latest |-> latest,
          oldest |-> oldest, err |-> TRUE]
    ELSE IF ~oldest.aw
    THEN [articles |-> Append(list, page[i]),
          latest |-> IF page[i] > latest.t THEN Aware(page[i]) ELSE latest,
          oldest |-> oldest, err |-> TRUE]
    ELSE ScanPage(page, i + 1, Append(list, page[i]),
                  IF page[i] > latest.t THEN Aware(page[i]) ELSE latest,
                  IF page[i] < oldest.t THEN Aware(page[i]) ELSE oldest)

\* list.sort(key=published_date): the same articles, earliest first
SortByDate(list) ==
    [i \in 1..Len(list) |->
        CHOOSE a \in Range(list) :
            /\ Cardinality({j \in 1..Len(list) : list[j] < a}) < i
            /\ i <= Cardinality({j \in 1..Len(list) : list[j] <= a})]

(***************************************************************************)
(* The news pipeline (pipelines/data_ingestion/company_news.py).           *)
(***************************************************************************)
VARIABLES
    provider,       \* ticker -> the published times of the articles held
    newsLog,        \* pipeline_log of news_articles.db: [exists, rows]
    newsTable,      \* the articles table of news_articles.db: [exists, rows]
    news_runs,      \* runs of the news pipeline started so far
    news_pc,        \* "idle", "begin", "init", "fwd", "bwd" or "store"
    news_load_type, \* the load_type of the run
    news_use_failed, \* the use_failed_tickers argument of the run
    news_tickers,   \* the ticker list of the run
    news_idx,       \* position of the ticker being processed
    news_failed,    \* the failed_tickers list of the run
    from_date,      \* the window of the next fetch_articles call
    to_date,
    oldest_published_date,  \* the stored oldest date read at the delta load
    all_articles,   \* the pooled articles: published time -> copies (capped)
    fetch_pc,       \* fetch_articles: "out", in its "loop", at its "sort", "ret"
    articles,       \* fetch_articles: the articles collected (published times)
    latest_date,    \* fetch_articles: the latest date so far
    oldest_date,    \* fetch_articles: the oldest date so far
    total_requests, \* fetch_articles: the requests counted
    issued,         \* fetch_articles: the GET requests sent by the invocation
    stub,           \* the scripted responses of a provider stub (<<>>: none)
    logCalls,       \* log_published_dates calls made between the runs
    news_succeeded  \* tickers execute_company_pipeline returned for in this run

newsVars ==
    <<provider, newsLog, newsTable, news_runs, news_pc, news_load_type,
      news_use_failed, news_tickers, news_idx, news_failed, from_date, to_date,
      oldest_published_date, all_articles, fetch_pc, articles, latest_date,
      oldest_date, total_requests, issued, stub, logCalls, news_succeeded>>

\* datetime.utcnow() of a run: later than every article the provider holds
utcnow == Naive(MaxArticleTime + news_runs)
EmptyPool == [a \in ArticleTimes |-> 0]
NoArticles == [t \in Tickers |-> {}]
news_ticker == news_tickers[news_idx]

\* all_articles.extend(articles)
RECURSIVE Extend(_, _)
Extend(pool, list) ==
    IF list = <<>> THEN pool
    ELSE Extend([pool EXCEPT ![Head(list)] =
                    IF @ < PoolCap THEN @ + 1 ELSE PoolCap], Tail(list))
Pooled(pool) == {a \in ArticleTimes : pool[a] > 0}

\* the row of pipeline_log for ticker t, as a set of at most one row
LogRows(log, t) == {r \in log.rows : r.ticker = t}

\* log_published_dates(conn, ticker, oldest_date, latest_date): INSERT .. ON
\* CONFLICT(ticker) DO UPDATE SET both dates to the new values
log_published_dates(log, t, oldest, latest) ==
    [log EXCEPT !.rows = {r \in log.rows : r.ticker # t} \cup
        {[ticker |-> t, oldest |-> oldest, latest |-> latest]}]

\* save_articles(conn, all_articles) is imported from utils.data_storage, which
\* does not define it; modelled from the specification as an upsert of the
\* records keyed by the article identity (ticker, published time)
save_articles(tbl, t, pool) ==
    [tbl EXCEPT !.rows = tbl.rows \cup
        {[ticker |-> t, published |-> a] : a \in Pooled(pool)}]

\* no run of the news pipeline has started
NewsIdle ==
    /\ newsLog = [exists |-> FALSE, rows |-> {}]
    /\ newsTable = [exists |-> FALSE, rows |-> {}]
    /\ news_runs = 0
    /\ news_pc = "idle"
    /\ news_load_type = "init"
    /\ news_use_failed = FALSE
    /\ news_tickers = <<>>
    /\ news_idx = 0
    /\ news_failed = <<>>
    /\ from_date = START_DATE
    /\ to_date = START_DATE
    /\ oldest_published_date = START_DATE
    /\ all_articles = EmptyPool
    /\ fetch_pc = "out"
    /\ articles = <<>>
    /\ latest_date = START_DATE
    /\ oldest_date = START_DATE
    /\ total_requests = 0
    /\ issued = 0
    /\ stub = <<>>
    /\ logCalls = 0
    /\ news_succeeded = {}

(***************************************************************************)
(* Inputs of the storage session: dicts of scalars (get_company_info),     *)
(* dicts of lists (batches of records) and the items of a DataFrame.       *)
(***************************************************************************)
InfoInputs ==
    { DictData([a |-> PyInt(1)]),
      DictData([a |-> PyInt(2), b |-> PyInt(1)]),
      DictData([b |-> PyNone]),
      DictData([a |-> PyFloat(2)]),
      DictData([a |-> PyList(<<PyInt(1), PyInt(2)>>)]),
      DictData([a |-> PyList(<<PyInt(1), PyInt(2)>>), b |-> PyInt(1)]),
      NoneData }
SeriesInputs ==
    { DictData([period |-> PyList(<<PyInt(1), PyInt(2)>>),
                a |-> PyList(<<PyInt(1), PyInt(2)>>)]),
      DictData([period |-> PyList(<<PyInt(1)>>), a |-> PyList(<<PyInt(2)>>)]),
      DictData([period |-> PyList(<<PyInt(1), PyNone, PyInt(2)>>),
                a |-> PyList(<<PyInt(1), PyInt(1), PyInt(1)>>)]),
      DictData([period |-> PyList(<<PyInt(1)>>), b |-> PyList(<<PyInt(1)>>)]),
      DictData([a |-> PyList(<<PyInt(1)>>)]),
      DictData([period |-> PySeries(<<1, 2>>), a |-> PySeries(<<1, 2>>)]) }
StoreTables == {"company_info", "balance_sheet"}
StoreInputs(table) == IF table = "company_info" THEN InfoInputs ELSE SeriesInputs

NoCall == [table |-> "", ticker |-> "", data |-> NoneData]
NoRes == [raised |-> FALSE, committed |-> FALSE]

StoreInit ==
    /\ db = [t \in TableNames |-> NoTable]
    /\ seed \in Seeds
    /\ calls = 0
    /\ lastCall = NoCall
    /\ dbBefore = db
    /\ lastRes = NoRes
    /\ repeated = FALSE
    /\ MetaIdle
    /\ failLog = <<>>
    /\ provider = NoArticles
    /\ NewsIdle

\* one save_to_sqlite(data, table, conn, ticker, id_columns) call
SaveCall(table, ticker, data) ==
    LET res == save_to_sqlite(db[table], seed, data, ticker, IdColumns(table))
    IN  /\ calls < MaxCalls
        /\ db' = [db EXCEPT ![table] = res.tbl]
        /\ dbBefore' = db
        /\ lastCall' = [table |-> table, ticker |-> ticker, data |-> data]
        /\ lastRes' = [raised |-> res.raised, committed |-> res.committed]
        /\ repeated' = (lastCall = [table |-> table, ticker |-> ticker, data |-> data])
        /\ calls' = calls + 1
        /\ UNCHANGED <<seed, metaVars, newsVars>>

StoreNext ==
    \E table \in StoreTables, ticker \in Tickers :
        \E data \in StoreInputs(table) : SaveCall(table, ticker, data)

vars == <<storeVars, metaVars, newsVars>>
SpecStore == StoreInit /\ [][StoreNext]_vars

(***************************************************************************)
(* The metadata pipeline (pipelines/data_ingestion/company_metadata.py).   *)
(* The entity fetchers are the yfinance calls of utils/data_extraction.py: *)
(* get_company_info returns a dict of scalars, the others DataFrames.  A   *)
(* DataFrame is a sequence of rows [period, v]; handed to save_to_sqlite   *)
(* its .items() are (column, Series) pairs.                                *)
(***************************************************************************)

\* DataFrame.items(): one Series per column
DfItems(frame) ==
    DictData([period |-> PySeries([i \in 1..Len(frame) |-> frame[i].period]),
              v |-> PySeries([i \in 1..Len(frame) |-> frame[i].v])])
\* the items of a DataFrame that has no period column
DfItemsNoPeriod(frame) ==
    DictData([v |-> PySeries([i \in 1..Len(frame) |-> frame[i].v])])

\* get_company_info: the info dict at time t
CompanyInfo(t) == DictData([a |-> PyInt(t)])
\* get_financial_statements: one row per period up to t
Statement(t) == [i \in 1..t |-> [period |-> i, v |-> i]]
\* get_historical_data: one bar per period up to t
HistoricalData(t) == [i \in 1..t |-> [period |-> i, v |-> i]]

\* (mutant: the delta load does not filter the bars)
SelectAll(frame, ts) == frame
\* historical_data[historical_data.index > last_run_timestamp]
RECURSIVE SelectAfter(_, _)
SelectAfter(frame, ts) ==
    IF frame = <<>> THEN <<>>
    ELSE IF Head(frame).period > ts
         THEN <<Head(frame)>> \o SelectAfter(Tail(frame), ts)
         ELSE SelectAfter(Tail(frame), ts)

\* get_analyst_recommendations: None, a DataFrame with a period column, or one
\* without (the function adds no period column, unlike the other fetchers)
RecsKinds == {"frame", "noperiod", "none"}
Recommendations(kind, t) ==
    IF kind = "none" THEN NoneData
    ELSE IF kind = "noperiod" THEN DfItemsNoPeriod(<<[period |-> t, v |-> t]>>)
    ELSE DfItems(<<[period |-> t, v |-> t]>>)

\* the data execute_company_pipeline hands to the i-th save_to_sqlite call
EntityData(i, kind, t, md, ts) ==
    CASE i = 1 -> CompanyInfo(t)
      [] i \in {2, 3, 4} -> DfItems(Statement(t))
      [] i = 5 -> Recommendations(kind, t)
      [] OTHER -> IF md = "delta" THEN DfItems(SelectAfter(HistoricalData(t), ts))
                  ELSE DfItems(HistoricalData(t))

(***************************************************************************)
(* pipeline_log.  Its schema is metadata/company_metadata/pipeline_log.sql *)
(* (not among the sources): ticker is unique, as the IntegrityError        *)
(* handler of update_pipeline_log expects.                                 *)
(***************************************************************************)
TickerIsUnique == TRUE
\* initialize_table: executes the script, which creates the table when absent
initialize_table(log) == [log EXCEPT !.exists = TRUE]

\* get_last_run_timestamp: the latest last_run of the ticker, 0 for None
get_last_run_timestamp(log, t) ==
    LET S == {r.last_run : r \in {q \in log.rows : q.ticker = t}}
    IN  IF S = {} THEN 0 ELSE MaxOf(S)

\* (mutant: the row is stamped later than the time the bars were fetched)
update_pipeline_log_ahead(log, t, ts) ==
    IF TickerIsUnique /\ \E r \in log.rows : r.ticker = t
    THEN log
    ELSE [log EXCEPT !.rows = log.rows \cup {[ticker |-> t, last_run |-> ts + 1]}]
\* update_pipeline_log: a plain INSERT; the IntegrityError of a second row for
\* the ticker is caught and logged
update_pipeline_log(log, t, ts) ==
    IF TickerIsUnique /\ \E r \in log.rows : r.ticker = t
    THEN log
    ELSE [log EXCEPT !.rows = log.rows \cup {[ticker |-> t, last_run |-> ts]}]

(***************************************************************************)
(* run_pipeline_for_companies and execute_company_pipeline.                *)
(***************************************************************************)
RECURSIVE SeqsOver(_, _)
\* the sequences without repetition of at most n elements of S
SeqsOver(S, n) ==
    IF n = 0 THEN {<<>>}
    ELSE {<<>>} \cup UNION {{<<x>> \o s : s \in SeqsOver(S \ {x}, n - 1)} : x \in S}
TickerLists == SeqsOver(Tickers, Cardinality(Tickers)) \ {<<>>}

ticker == tickers[idx]

\* an empty company_metadata.db and no storage session
StoreIdle ==
    /\ db = [t \in TableNames |-> NoTable]
    /\ seed = 1
    /\ calls = 0
    /\ lastCall = NoCall
    /\ dbBefore = db
    /\ lastRes = NoRes
    /\ repeated = FALSE

\* ./data/logs/failed_tickers.log before the first run of the model: absent, or
\* left by two earlier delta runs that each failed ticker A against a database
\* without pipeline_log
InitialLogs ==
    {<<>>, <<[ticker |-> "A", msg |-> "no such table"],
             [ticker |-> "A", msg |-> "no such table"]>>}

MetaInit ==
    /\ StoreIdle
    /\ MetaIdle
    /\ failLog \in InitialLogs
    /\ provider = NoArticles
    /\ NewsIdle

\* what the metadata pipeline leaves alone
storeOnly == <<calls, lastCall, dbBefore, lastRes, repeated, newsVars>>
tickerLocals == <<mode, last_run_timestamp, recs, ent>>
callArgs == <<requested, use_failed_tickers>>
runArgs == <<load_type, requested, use_failed_tickers>>

\* scrape_nse_tickers(): the universe of listed tickers
Universe == <<"A", "B">>
\* the tickers argument of a run; of a run that replays the failure log
RunArgs == {NoneArg} \cup {ListArg(list) : list \in TickerLists}
ReplayArgs == {NoneArg, ListArg(<<"B">>)}
Programs == {"data_ingestion", "legacy"}

\* os.path.exists(log_file): the file is created by the first line appended
LogExists(log) == log # <<>>
\* line.split(' - ')[0].strip() for every line of the log
LogTickers(log) == [i \in 1..Len(log) |-> log[i].ticker]
\* the orders of a list(set(..)), which depend on the hash seed
Orders(S) == {s \in SeqsOver(S, Cardinality(S)) : Len(s) = Cardinality(S)}
\* the ticker list read from the failure log: deduplicated by
\* pipelines/data_ingestion/company_metadata.py (lines 85-87), taken line by
\* line by pipelines/company_metadata.py (lines 102-103)
ReplayLists(program, log) ==
    IF program = "legacy" THEN {LogTickers(log)}
    ELSE Orders(Range(LogTickers(log)))

\* initialize_pipeline_log is imported by pipelines/company_metadata.py from
\* utils.data_storage, which does not define it; modelled as the creation of
\* pipeline_log when absent
initialize_pipeline_log(log) == [log EXCEPT !.exists = TRUE]

\* lines 96-106: the loop starts on the resolved list
EnterLoop(list) ==
    /\ tickers' = list
    /\ idx' = 1
    /\ pc' = "begin"
\* line 91: the run returns before the loop; conn.close() is not reached
ReturnEarly ==
    /\ tickers' = <<>>
    /\ idx' = 0
    /\ pc' = "returned"

\* run_pipeline_for_companies(load_type, tickers, use_failed_tickers), lines
\* 67-103: a new process connects, initializes pipeline_log on an init load and
\* resolves the ticker list
StartRun(program, lt, arg, uf) ==
    /\ pc \in {"idle", "returned"}
    /\ runs < MaxRuns
    /\ runs' = runs + 1
    /\ seed' \in Seeds
    /\ connOpen' = TRUE
    /\ load_type' = lt
    /\ plog' = IF lt # "init" THEN plog
               ELSE IF program = "legacy" THEN initialize_pipeline_log(plog)
               ELSE initialize_table(plog)
    /\ use_failed_tickers' = uf
    /\ IF uf /\ ~LogExists(failLog)
       THEN /\ ReturnEarly
            /\ requested' = NoneArg
       ELSE /\ requested' = arg
            /\ IF uf
               THEN \E list \in ReplayLists(program, failLog) : EnterLoop(list)
               ELSE IF arg.none THEN EnterLoop(Universe) ELSE EnterLoop(arg.list)
    /\ failed_tickers' = <<>>
    /\ uncommitted' = {}
    /\ marked' = {}
    /\ succeeded' = {}
    /\ UNCHANGED <<db, failLog, tickerLocals, storeOnly>>

\* the for loop moves to the next ticker, or the run closes the connection and
\* returns
Advance ==
    IF idx < Len(tickers)
    THEN idx' = idx + 1 /\ pc' = "begin" /\ UNCHANGED <<connOpen, callArgs>>
    ELSE /\ idx' = idx /\ pc' = "idle" /\ connOpen' = FALSE
         /\ requested' = NoneArg
         /\ UNCHANGED use_failed_tickers

\* (mutant: the log file is opened for writing, not for appending)
FailTruncates(msg) ==
    /\ failed_tickers' = Append(failed_tickers, ticker)
    /\ failLog' = <<[ticker |-> ticker, msg |-> msg]>>
    /\ Advance
\* the except block of the loop, lines 110-118
Fail(msg) ==
    /\ failed_tickers' = Append(failed_tickers, ticker)
    /\ failLog' = Append(failLog, [ticker |-> ticker, msg |-> msg])
    /\ Advance

\* (mutant: the requested load type is kept)
ModeOfRequested(lt, ts) == lt
\* lines 25-30: a delta load without a last run falls back to an init load
ModeOf(lt, ts) == IF lt = "delta" /\ ts # 0 THEN "delta" ELSE "init"

\* execute_company_pipeline, lines 25-37: the mode of the ticker and the fetches
BeginTicker(kind) ==
    /\ pc = "begin"
    /\ IF load_type = "delta" /\ ~plog.exists
       THEN \* get_last_run_timestamp raises: no such table pipeline_log
            /\ Fail("no such table")
            /\ UNCHANGED <<tickerLocals>>
       ELSE /\ last_run_timestamp' =
                    IF load_type = "delta" THEN get_last_run_timestamp(plog, ticker)
                    ELSE 0
            /\ mode' = ModeOf(load_type, last_run_timestamp')
            /\ recs' = kind
            /\ ent' = 1
            /\ pc' = "save"
            /\ UNCHANGED <<failLog, failed_tickers, idx, connOpen, callArgs>>
    /\ UNCHANGED <<db, seed, plog, runs, load_type, tickers, uncommitted, marked,
                   succeeded, storeOnly>>

\* a fetcher raises (network, missing data)
FetchRaises ==
    /\ pc = "begin"
    /\ load_type = "init" \/ plog.exists
    /\ Fail("fetch failed")
    /\ UNCHANGED <<db, seed, plog, runs, load_type, tickers, uncommitted, marked,
                   succeeded, tickerLocals, storeOnly>>

\* (mutant: the str hash is salted anew at every call)
hash_seed_per_call == ((seed + ent) % NumSeeds) + 1
\* the salt of hash() at a generate_id call of the run: that of the process
hash_seed == seed

\* the ent-th save_to_sqlite call of execute_company_pipeline, lines 40-59
SaveEntity ==
    /\ pc = "save"
    /\ LET table == Entities[ent]
           res == save_to_sqlite(db[table], hash_seed,
                                 EntityData(ent, recs, now, mode, last_run_timestamp),
                                 ticker, IdColumns(table))
       IN  IF res.raised
           THEN /\ Fail("save raised")
                /\ UNCHANGED <<db, uncommitted, ent>>
           ELSE /\ db' = [db EXCEPT ![table] = res.tbl]
                /\ uncommitted' = IF res.committed THEN uncommitted
                                  ELSE uncommitted \cup {ticker}
                /\ IF ent < Len(Entities)
                   THEN ent' = ent + 1 /\ pc' = "save"
                   ELSE ent' = ent /\ pc' = "log"
                /\ UNCHANGED <<failLog, failed_tickers, idx, connOpen, callArgs>>
    /\ UNCHANGED <<seed, plog, runs, load_type, tickers, mode, last_run_timestamp,
                   recs, marked, succeeded, storeOnly>>

\* update_pipeline_log(conn, ticker), line 62, and the return to the loop
UpdateLog ==
    /\ pc = "log"
    /\ plog' = update_pipeline_log(plog, ticker, now)
    /\ marked' = IF plog' # plog THEN marked \cup {ticker} ELSE marked
    /\ succeeded' = succeeded \cup {ticker}
    /\ Advance
    /\ UNCHANGED <<db, seed, failLog, runs, load_type, tickers, failed_tickers,
                   uncommitted, tickerLocals, storeOnly>>

Next ==
    \/ \E program \in Programs, lt \in {"init", "delta"} :
          \/ \E arg \in RunArgs : StartRun(program, lt, arg, FALSE)
          \/ \E arg \in ReplayArgs : StartRun(program, lt, arg, TRUE)
    \/ \E kind \in RecsKinds : BeginTicker(kind)
    \/ FetchRaises
    \/ SaveEntity
    \/ UpdateLog

Spec == MetaInit /\ [][Next]_vars

(***************************************************************************)
(* run_pipeline_for_companies and execute_company_pipeline of the news     *)
(* pipeline.                                                               *)
(***************************************************************************)
metaOnly ==
    <<plog, runs, pc, runArgs, tickers, idx, failed_tickers, mode,
      last_run_timestamp, recs, ent, connOpen, uncommitted, marked, succeeded>>
fetchLocals ==
    <<fetch_pc, articles, latest_date, oldest_date, total_requests, issued>>
newsLocals ==
    <<from_date, to_date, oldest_published_date, all_articles, fetchLocals,
      stub, logCalls>>

NewsInit ==
    /\ StoreIdle
    /\ MetaIdle
    /\ failLog = <<>>
    /\ provider \in [Tickers -> SUBSET ArticleTimes]
    /\ NewsIdle

\* run_pipeline_for_companies(load_type, tickers, use_failed_tickers), lines
\* 104-137: the tables are initialized on an init load; a replay of the failure
\* log takes the deduplicated tickers of the log and runs as a delta load
NewsStartRun(lt, list, uf) ==
    /\ news_pc \in {"idle", "returned"}
    /\ news_runs < MaxNewsRuns
    /\ news_runs' = news_runs + 1
    /\ news_use_failed' = uf
    /\ newsTable' = IF lt = "init" THEN initialize_table(newsTable) ELSE newsTable
    /\ newsLog' = IF lt = "init" THEN initialize_table(newsLog) ELSE newsLog
    /\ IF uf /\ ~LogExists(failLog)
       THEN /\ news_load_type' = lt
            /\ news_tickers' = <<>>
            /\ news_idx' = 0
            /\ news_pc' = "returned"
       ELSE /\ news_load_type' = IF uf THEN "delta" ELSE lt
            /\ news_tickers' \in IF uf THEN Orders(Range(LogTickers(failLog)))
                                ELSE {list}
            /\ news_idx' = 1
            /\ news_pc' = "begin"
    /\ news_failed' = <<>>
    /\ news_succeeded' = {}
    /\ UNCHANGED <<provider, newsLocals, failLog, storeVars, metaOnly>>

NewsAdvance ==
    IF news_idx < Len(news_tickers)
    THEN news_idx' = news_idx + 1 /\ news_pc' = "begin"
    ELSE news_idx' = news_idx /\ news_pc' = "idle"

\* the except block of the loop, lines 144-152
NewsFail(msg) ==
    /\ news_failed' = Append(news_failed, news_ticker)
    /\ failLog' = Append(failLog, [ticker |-> news_ticker, msg |-> msg])
    /\ NewsAdvance

\* execute_company_pipeline, lines 31-36, 53-64 and 88-89: the first window of
\* the ticker
NewsBegin ==
    /\ news_pc = "begin"
    /\ all_articles' = EmptyPool
    /\ IF news_load_type = "init"
       THEN /\ from_date' = START_DATE
            /\ to_date' = utcnow
            /\ news_pc' = "init"
            /\ UNCHANGED <<oldest_published_date, news_idx, news_failed, failLog>>
       ELSE IF ~newsLog.exists
       THEN \* the SELECT raises: no such table pipeline_log
            /\ NewsFail("no such table")
            /\ UNCHANGED <<from_date, to_date, oldest_published_date>>
       ELSE IF LogRows(newsLog, news_ticker) = {}
       THEN \* "Please run the initial load first": nothing is fetched
            /\ news_pc' = "store"
            /\ UNCHANGED <<from_date, to_date, oldest_published_date, news_idx,
                           news_failed, failLog>>
       ELSE LET r == CHOOSE r \in newsLog.rows : r.ticker = news_ticker
            IN  /\ from_date' = to_utc(r.latest)
                /\ to_date' = to_utc(utcnow)
                /\ oldest_published_date' = r.oldest
                /\ news_pc' = "fwd"
                /\ UNCHANGED <<news_idx, news_failed, failLog>>
    /\ UNCHANGED <<provider, newsLog, newsTable, news_runs, news_load_type,
                   news_use_failed, news_tickers, news_succeeded, fetchLocals,
                   stub, logCalls,
                   storeVars, metaOnly>>

\* a response of the provider to one GET: status 200 with a list of articles,
\* another status, or no response at all (requests.get raises)
Ok(page) == [kind |-> "ok", articles |-> page]
ErrorStatus == [kind |-> "error", articles |-> <<>>]
NoResponse == [kind |-> "raise", articles |-> <<>>]

\* (mutant: the loop has no request ceiling)
LoopGoesOnAlways(n) == TRUE
\* line 103: while total_requests < MAX_NUM_REQUESTS
LoopGoesOn(n) == n < MAX_NUM_REQUESTS

\* fetch_articles, lines 96-101, called with the window [f, t]
EnterFetch(f, t) ==
    /\ fetch_pc = "out"
    /\ fetch_pc' = "loop"
    /\ articles' = <<>>
    /\ latest_date' = f
    /\ oldest_date' = t
    /\ total_requests' = 0
    /\ issued' = 0

\* (mutant: the handler of a failed request drops the articles collected)
IterateDropsOnError(resp) ==
    /\ fetch_pc = "loop"
    /\ issued' = issued + 1
    /\ LET scan == ScanPage(resp.articles, 1, articles, latest_date, oldest_date)
       IN  IF resp.kind # "ok"
           THEN /\ fetch_pc' = "sort"
                /\ articles' = <<>>
                /\ UNCHANGED <<latest_date, oldest_date, total_requests>>
           ELSE IF resp.articles = <<>>
           THEN /\ fetch_pc' = "sort"
                /\ UNCHANGED <<articles, latest_date, oldest_date, total_requests>>
           ELSE /\ articles' = scan.articles
                /\ latest_date' = scan.latest
                /\ oldest_date' = scan.oldest
                /\ total_requests' = IF scan.err THEN total_requests
                                     ELSE total_requests + 1
                /\ fetch_pc' = IF ~scan.err /\ LoopGoesOn(total_requests')
                               THEN "loop" ELSE "sort"
\* fetch_articles, lines 103-155: one iteration of the while loop, which sends
\* a GET and receives resp.  An empty list, another status or an exception ends
\* the loop; so does the TypeError of a date comparison.
Iterate(resp) ==
    /\ fetch_pc = "loop"
    /\ issued' = issued + 1
    /\ LET scan == ScanPage(resp.articles, 1, articles, latest_date, oldest_date)
       IN  IF resp.kind # "ok" \/ resp.articles = <<>>
           THEN /\ fetch_pc' = "sort"
                /\ UNCHANGED <<articles, latest_date, oldest_date, total_requests>>
           ELSE /\ articles' = scan.articles
                /\ latest_date' = scan.latest
                /\ oldest_date' = scan.oldest
                /\ total_requests' = IF scan.err THEN total_requests
                                     ELSE total_requests + 1
                /\ fetch_pc' = IF ~scan.err /\ LoopGoesOn(total_requests')
                               THEN "loop" ELSE "sort"

\* fetch_articles, lines 157-160: sort and return
SortAndReturn ==
    /\ fetch_pc = "sort"
    /\ articles' = SortByDate(articles)
    /\ fetch_pc' = "ret"
    /\ UNCHANGED <<latest_date, oldest_date, total_requests, issued>>

\* the fetch_articles call of a while True loop (lines 42, 67 and 81)
FetchCall ==
    /\ news_pc \in {"init", "fwd", "bwd"}
    /\ EnterFetch(from_date, to_date)
    /\ UNCHANGED <<provider, newsLog, newsTable, news_runs, news_pc,
                   news_load_type, news_use_failed, news_tickers, news_idx, news_failed,
                   news_succeeded, from_date, to_date, oldest_published_date,
                   all_articles, stub, logCalls, failLog, storeVars, metaOnly>>

\* an iteration against the provider: every request carries the same window
\* and page 1
Request ==
    /\ news_pc \in {"init", "fwd", "bwd"}
    /\ Iterate(Ok(Page(provider[news_ticker], from_date, to_date)))
    /\ UNCHANGED <<provider, newsLog, newsTable, news_runs, news_pc,
                   news_load_type, news_use_failed, news_tickers, news_idx, news_failed,
                   news_succeeded, from_date, to_date, oldest_published_date,
                   all_articles, stub, logCalls, failLog, storeVars, metaOnly>>

\* an iteration in which the provider answers with another status than 200, or
\* requests.get raises
RequestFails ==
    /\ news_pc \in {"init", "fwd", "bwd"}
    /\ \E resp \in {ErrorStatus, NoResponse} : Iterate(resp)
    /\ UNCHANGED <<provider, newsLog, newsTable, news_runs, news_pc,
                   news_load_type, news_use_failed, news_tickers, news_idx, news_failed,
                   news_succeeded, from_date, to_date, oldest_published_date,
                   all_articles, stub, logCalls, failLog, storeVars, metaOnly>>

FetchReturn ==
    /\ news_pc \in {"init", "fwd", "bwd"}
    /\ SortAndReturn
    /\ UNCHANGED <<provider, newsLog, newsTable, news_runs, news_pc,
                   news_load_type, news_use_failed, news_tickers, news_idx, news_failed,
                   news_succeeded, from_date, to_date, oldest_published_date,
                   all_articles, stub, logCalls, failLog, storeVars, metaOnly>>

\* the rest of a loop body, once fetch_articles has returned (articles,
\* latest_date, oldest_date); the locals of the call are gone
LoopBody(phase) ==
    /\ news_pc = phase
    /\ fetch_pc = "ret"
    /\ fetch_pc' = "out"
    /\ articles' = <<>>
    /\ latest_date' = START_DATE
    /\ oldest_date' = START_DATE
    /\ total_requests' = 0
    /\ issued' = 0
    /\ UNCHANGED <<provider, newsLog, newsTable, news_runs, news_load_type,
                   news_use_failed, news_tickers, news_idx, news_failed,
                   news_succeeded, oldest_published_date, stub, logCalls, failLog, storeVars,
                   metaOnly>>

\* lines 43-49: the initial load moves from_date to the oldest date returned
InitLoop ==
    /\ LoopBody("init")
    /\ IF articles = <<>>
       THEN news_pc' = "store" /\ UNCHANGED <<from_date, to_date, all_articles>>
       ELSE /\ all_articles' = Extend(all_articles, articles)
            /\ from_date' = to_utc(oldest_date)
            /\ UNCHANGED <<to_date, news_pc>>

\* (mutant: the pool is emptied between the two phases)
ForwardLoopResetsPool ==
    /\ LoopBody("fwd")
    /\ IF articles = <<>>
       THEN /\ news_pc' = "bwd"
            /\ from_date' = START_DATE
            /\ to_date' = oldest_published_date
            /\ all_articles' = EmptyPool
       ELSE /\ all_articles' = Extend(all_articles, articles)
            /\ from_date' = to_utc(latest_date)
            /\ UNCHANGED <<to_date, news_pc>>
\* lines 68-78: the forward phase moves from_date to the latest date returned;
\* when it ends the backward window is set
ForwardLoop ==
    /\ LoopBody("fwd")
    /\ IF articles = <<>>
       THEN /\ news_pc' = "bwd"
            /\ from_date' = START_DATE
            /\ to_date' = oldest_published_date
            /\ UNCHANGED all_articles
       ELSE /\ all_articles' = Extend(all_articles, articles)
            /\ from_date' = to_utc(latest_date)
            /\ UNCHANGED <<to_date, news_pc>>

\* lines 82-87: the backward phase moves from_date to the latest date returned
BackwardLoop ==
    /\ LoopBody("bwd")
    /\ IF articles = <<>>
       THEN news_pc' = "store" /\ UNCHANGED <<from_date, to_date, all_articles>>
       ELSE /\ all_articles' = Extend(all_articles, articles)
            /\ from_date' = to_utc(latest_date)
            /\ UNCHANGED <<to_date, news_pc>>

\* (mutant: the dates of the last window are logged when nothing was pooled)
NewsStoreLogsAlways ==
    /\ news_pc = "store"
    /\ IF Pooled(all_articles) # {}
       THEN IF newsTable.exists
            THEN /\ newsTable' = save_articles(newsTable, news_ticker, all_articles)
                 /\ NewsFail("missing argument")
                 /\ UNCHANGED <<newsLog, news_succeeded>>
            ELSE /\ NewsFail("no such table")
                 /\ UNCHANGED <<newsLog, newsTable, news_succeeded>>
       ELSE /\ news_succeeded' = news_succeeded \cup {news_ticker}
            /\ newsLog' = log_published_dates(newsLog, news_ticker, from_date, to_date)
            /\ NewsAdvance
            /\ UNCHANGED <<newsTable, news_failed, failLog>>
    /\ UNCHANGED <<provider, news_runs, news_load_type,
                   news_use_failed, news_tickers, newsLocals, storeVars, metaOnly>>
\* lines 92-101: the pooled articles are saved; the call of line 98 then passes
\* (ticker, oldest_date, latest_date) to log_published_dates, which takes four
\* arguments: TypeError, and the ticker fails with its articles saved
NewsStore ==
    /\ news_pc = "store"
    /\ IF Pooled(all_articles) # {}
       THEN IF newsTable.exists
            THEN /\ newsTable' = save_articles(newsTable, news_ticker, all_articles)
                 /\ NewsFail("missing argument")
                 /\ UNCHANGED news_succeeded
            ELSE /\ NewsFail("no such table")
                 /\ UNCHANGED <<newsTable, news_succeeded>>
       ELSE /\ news_succeeded' = news_succeeded \cup {news_ticker}
            /\ NewsAdvance
            /\ UNCHANGED <<newsTable, news_failed, failLog>>
    /\ UNCHANGED <<provider, newsLog, news_runs, news_load_type,
                   news_use_failed, news_tickers, newsLocals, storeVars, metaOnly>>

\* log_published_dates(conn, ticker, oldest_date, latest_date) called with the
\* arguments of its signature, between two runs
WatermarkDates ==
    {d \in [oldest : {Aware(a) : a \in ArticleTimes},
            latest : {Aware(a) : a \in ArticleTimes}] : d.oldest.t <= d.latest.t}
LogPublishedDates(t, d) ==
    /\ news_pc \in {"idle", "returned"}
    /\ logCalls < MaxLogCalls
    /\ newsLog.exists
    /\ newsLog' = log_published_dates(newsLog, t, d.oldest, d.latest)
    /\ logCalls' = logCalls + 1
    /\ UNCHANGED <<provider, newsTable, news_runs, news_pc, news_load_type,
                   news_use_failed, news_tickers, news_idx, news_failed, news_succeeded,
                   from_date, to_date, oldest_published_date, all_articles,
                   fetchLocals, stub, failLog, storeVars, metaOnly>>

\* the steps of a running news pipeline
NewsStep ==
    \/ NewsBegin
    \/ FetchCall
    \/ Request
    \/ RequestFails
    \/ FetchReturn
    \/ InitLoop
    \/ ForwardLoop
    \/ BackwardLoop
    \/ NewsStore

NewsNext ==
    \/ \E lt \in {"init", "delta"} :
          \/ \E list \in TickerLists : NewsStartRun(lt, list, FALSE)
          \/ NewsStartRun(lt, Universe, TRUE)
    \/ NewsBegin
    \/ FetchCall
    \/ Request
    \/ RequestFails
    \/ FetchReturn
    \/ InitLoop
    \/ ForwardLoop
    \/ BackwardLoop
    \/ NewsStore
    \/ \E t \in Tickers, d \in WatermarkDates : LogPublishedDates(t, d)

SpecNews == NewsInit /\ [][NewsNext]_vars
\* the process of a run keeps executing: its next step is eventually taken
SpecNewsFair == SpecNews /\ WF_vars(NewsStep)

(***************************************************************************)
(* fetch_articles called on its own against a provider stub that answers   *)
(* the k-th request with the k-th scripted response and, once the script   *)
(* is used up, with an empty list of articles.                             *)
(***************************************************************************)
StubPages == {<<MaxArticleTime, 1>>, <<1>>}
StubResponses == {Ok(p) : p \in StubPages} \cup {Ok(<<>>), ErrorStatus, NoResponse}
StubScripts == UNION {[1..n -> StubResponses] : n \in 0..MaxResponses}
\* the windows of a call: naive or aware bounds around the article times
StubWindows ==
    [from : {START_DATE, to_utc(START_DATE)},
     to : {Naive(MaxArticleTime + 1), Aware(MaxArticleTime + 1)}]
StubResponse == IF issued < Len(stub) THEN stub[issued + 1] ELSE Ok(<<>>)

\* what a call of fetch_articles outside the pipelines leaves alone
stubOnly ==
    <<provider, newsLog, newsTable, news_runs, news_pc, news_load_type,
      news_use_failed, news_tickers, news_idx, news_failed, news_succeeded,
      oldest_published_date, all_articles, logCalls, failLog, storeVars,
      metaOnly>>

\* fetch_articles(ticker, w.from, w.to) against the stub with the given script
StubCall(w, script) ==
    /\ news_pc = "idle"
    /\ stub = <<>>
    /\ from_date' = w.from
    /\ to_date' = w.to
    /\ stub' = script
    /\ EnterFetch(w.from, w.to)
    /\ UNCHANGED stubOnly

StubRequest ==
    /\ news_pc = "idle"
    /\ Iterate(StubResponse)
    /\ UNCHANGED <<from_date, to_date, stub, stubOnly>>

StubReturn ==
    /\ news_pc = "idle"
    /\ SortAndReturn
    /\ UNCHANGED <<from_date, to_date, stub, stubOnly>>

FetchNext ==
    \/ \E w \in StubWindows, script \in StubScripts : StubCall(w, script)
    \/ StubRequest
    \/ StubReturn

\* no pipeline runs: empty databases, no failure log, the fetcher not called
FetchInit ==
    /\ StoreIdle
    /\ MetaIdle
    /\ failLog = <<>>
    /\ provider = NoArticles
    /\ NewsIdle

SpecFetch == FetchInit /\ [][FetchNext]_vars

(***************************************************************************)
(* The two pipelines side by side.  Each is a program of its own with its  *)
(* own database; a behaviour of SpecPipelines runs one of the two.         *)
(***************************************************************************)
PipelinesNext ==
    \/ news_runs = 0 /\ provider = NoArticles /\ Next
    \/ runs = 0 /\ NewsNext

SpecPipelines == NewsInit /\ [][PipelinesNext]_vars

(***************************************************************************)
(* Claims on the upsert engine, checked under SpecStore.                   *)
(***************************************************************************)
CallTable == lastCall.table
CallFrame == Frame(seed, lastCall.data, lastCall.ticker)
\* the last call wrote every row of its frame
CallApplied == calls > 0 /\ ~lastRes.raised /\ lastRes.committed
\* the rows of the frame, as stored, whose key is the key of the stored row old
CallMatches(old) ==
    {i \in 1..Len(CallFrame.rows) :
        KeyMatch(db[CallTable], old, StoredRow(db[CallTable], CallFrame, i))}
LastOf(S) == CHOOSE i \in S : \A k \in S : k <= i
\* the record of the frame that the stored row old received last
CallRecord(old) == StoredRow(db[CallTable], CallFrame, LastOf(CallMatches(old)))

\* C1: a second save_to_sqlite call with the same table, ticker and batch leaves
\* the rows of the table exactly as they were after the first call.
C1_IdempotentUpsert ==
    repeated => db[CallTable].rows = dbBefore[CallTable].rows

\* C1 witness: a batch was written twice and the table holds rows.
C1_Witness ==
    /\ repeated
    /\ CallApplied
    /\ Len(db[CallTable].rows) > 0

CallLacks == DOMAIN dbBefore[CallTable].cols \ DOMAIN CallFrame.cols
\* the rows of the table that the last call wrote: updated or inserted
CallWritten == {j \in 1..Len(db[CallTable].rows) : CallMatches(db[CallTable].rows[j]) # {}}
\* every record of the frame carries a value in every key column
CallHasKeys ==
    \A i \in 1..Len(CallFrame.rows) :
        ~NotNullFails(db[CallTable], StoredRow(db[CallTable], CallFrame, i))

\* C18: across any sequence of save_to_sqlite calls the columns of a table only
\* grow: a column that exists is never removed and never changes its declared
\* type.
C18_ColumnsOnlyGrow ==
    [][\A table \in TableNames :
          db[table].exists =>
             /\ db'[table].exists
             /\ DOMAIN db[table].cols \subseteq DOMAIN db'[table].cols
             /\ \A c \in DOMAIN db[table].cols :
                    db'[table].cols[c] = db[table].cols[c]]_vars

\* C18 witness: a call widened an existing table whose frame lacks one of the
\* table's columns and carries, with another type, a column the table has.
C18_Witness ==
    /\ CallApplied
    /\ dbBefore[CallTable].exists
    /\ DOMAIN db[CallTable].cols # DOMAIN dbBefore[CallTable].cols
    /\ \E c \in DOMAIN dbBefore[CallTable].cols \cap DOMAIN CallFrame.cols :
            CallFrame.cols[c] # dbBefore[CallTable].cols[c]

RunEnded == (pc = "idle" /\ runs > 0) \/ pc = "returned"
\* table holds a row the run's process wrote for ticker t
HasRowOf(table, t) ==
    \E j \in 1..Len(db[table].rows) :
        /\ db[table].rows[j]["ticker"] = <<"text", t>>
        /\ db[table].rows[j]["ticker_id"] = <<"itext", generate_id(seed, t)>>
\* two rows of a table describe one entity: the same ticker and, in a
\* time-series table, the same period
SameEntity(table, r1, r2) ==
    /\ r1["ticker"] = r2["ticker"]
    /\ \/ table = "company_info"
       \/ "period" \in DOMAIN db[table].cols /\ r1["period"] = r2["period"]

\* C2: after any sequence of init and delta runs, each in a process of its own,
\* company_info holds at most one row per ticker and every time-series table at
\* most one row per (ticker, period).
C2_OneRowPerEntity ==
    \A table \in TableNames :
        \A i, j \in 1..Len(db[table].rows) :
            SameEntity(table, db[table].rows[i], db[table].rows[j]) => i = j

\* C5: when a run has ended, every ticker of the list that did not raise is
\* fully persisted (a row in every entity table), the failing tickers are the
\* ones recorded, each appended to the failure log exactly once in the run, and
\* the reported count is the number of failing tickers.
C5_PerTickerIsolation ==
    RunEnded =>
        /\ \A t \in Range(tickers) \ Range(failed_tickers) :
                \A table \in TableNames : HasRowOf(table, t)
        /\ Range(failed_tickers) = Range(tickers) \ succeeded
        /\ Len(failed_tickers) = Cardinality(Range(tickers) \ succeeded)
        /\ Len(failLog) >= Len(failed_tickers)
        /\ \A i \in 1..Len(failed_tickers) :
                failLog[Len(failLog) - Len(failed_tickers) + i].ticker
                    = failed_tickers[i]

\* C6: a ticker with a storage failure (an upsert that did not commit, whether
\* the CREATE TABLE, the ALTER TABLE or the INSERT failed) is counted as failed
\* and is in the failure log when the run has ended.
C6_StorageFailureFailsTicker ==
    RunEnded =>
        \A t \in uncommitted :
            /\ t \in Range(failed_tickers)
            /\ \E i \in 1..Len(failLog) : failLog[i].ticker = t

\* C7: at every point of a run, a ticker whose watermark row this run wrote
\* has had every entity upsert of this run committed.
C7_WatermarkOnlyIfCommitted == marked \cap uncommitted = {}

\* C9: after every successful processing of a ticker the watermark that
\* get_last_run_timestamp reads for it is the time of that run.
C9_WatermarkIsRunTime ==
    \A t \in succeeded : get_last_run_timestamp(plog, t) = now

\* the run is in its loop over the tickers
InRun == pc \in {"begin", "save", "log"}
\* the tickers the failure log names
LoggedTickers == Range(LogTickers(failLog))

\* C13: the ticker list of a run is the explicit list when one is given, also
\* when use_failed_tickers is set; it is read from the failure log only when no
\* list is given, and scraped only when neither is given.
C13_ResolutionOrder ==
    InRun =>
        /\ ~requested.none => tickers = requested.list
        /\ requested.none /\ use_failed_tickers => Range(tickers) = LoggedTickers
        /\ requested.none /\ ~use_failed_tickers => tickers = Universe

\* C14: a run that asks for the replay of a failure log that does not exist
\* returns without any work done: no table is created or written, no line is
\* appended to the failure log and no ticker is processed.
C14_ReplayWithoutLogDoesNothing ==
    [][pc' = "returned" /\ runs' = runs + 1 =>
          /\ db' = db
          /\ plog' = plog
          /\ failLog' = failLog
          /\ tickers' = <<>> /\ succeeded' = {} /\ failed_tickers' = <<>>]_vars

\* C15: on every path by which a run ends (through its loop, with or without
\* failed tickers, or by returning in the resolution phase) the connection the
\* run opened has been closed.
C15_ConnectionClosed == RunEnded => ~connOpen

\* C16: a run whose ticker list is read from the failure log processes each
\* ticker the log names at most once, however many lines name it.
C16_ReplayOnce ==
    use_failed_tickers /\ runs > 0 =>
        \A i, j \in 1..Len(tickers) : tickers[i] = tickers[j] => i = j

(***************************************************************************)
(* Claims on the news pipeline.                                            *)
(***************************************************************************)

C10_PhasesTerminate ==
    \A phase \in {"init", "fwd", "bwd"} : (news_pc = phase) ~> (news_pc # phase)

\* C12: when the init load of a ticker ends, every article the provider holds
\* for it (all are published between the global start date and the start of the
\* load) is in the batch handed to storage exactly once.
C12_InitLoadComplete ==
    news_pc = "store" /\ news_load_type = "init" =>
        \A a \in ArticleTimes :
            all_articles[a] = IF a \in provider[news_ticker] THEN 1 ELSE 0

(***************************************************************************)
(* Claims on fetch_articles, checked under SpecFetch.                      *)
(***************************************************************************)
\* the stub answers N non-empty pages and then an empty page
PagesThenEmpty == \A k \in 1..Len(stub) : stub[k] \in {Ok(p) : p \in StubPages}
\* the number of records with published time a in the first n scripted pages
RECURSIVE InPages(_, _)
InPages(a, n) ==
    IF n = 0 THEN 0
    ELSE InPages(a, n - 1) +
         Cardinality({i \in 1..Len(stub[n].articles) : stub[n].articles[i] = a})
Copies(list, a) == Cardinality({i \in 1..Len(list) : list[i] = a})
Ascending(list) == \A i, j \in 1..Len(list) : i < j => list[i] <= list[j]
FetchReturned == news_pc = "idle" /\ fetch_pc = "ret"

\* C11: against a provider that returns N non-empty pages and then an empty
\* page, one fetch_articles call sends exactly N+1 requests and returns the
\* records of all N pages pooled, in ascending published-time order.
C11_StitchPoolsAllPages ==
    FetchReturned /\ PagesThenEmpty =>
        /\ issued = Len(stub) + 1
        /\ \A a \in ArticleTimes : Copies(articles, a) = InPages(a, Len(stub))
        /\ Ascending(articles)

\* C20: one fetch_articles call sends at most MAX_NUM_REQUESTS requests to the
\* provider, whatever the provider returns.
C20_RequestCeiling == issued <= MAX_NUM_REQUESTS

\* C20 witness: a call returned after MAX_NUM_REQUESTS requests although the
\* provider had a further non-empty page to give.
C20_Witness ==
    /\ FetchReturned
    /\ PagesThenEmpty
    /\ Len(stub) > MAX_NUM_REQUESTS
    /\ issued = MAX_NUM_REQUESTS
    /\ total_requests = MAX_NUM_REQUESTS

(***************************************************************************)
(* Claims on both pipelines, checked under SpecPipelines.                  *)
(***************************************************************************)
InTicker == pc \in {"save", "log"}
InNewsTicker == news_pc \in {"init", "fwd", "bwd", "store"}

\* a replay of the metadata pipeline processes the tickers the failure log
\* names, and a ticker it processed without a failed fetch or storage step has
\* a row in every entity table and a watermark row
MetadataReplay ==
    use_failed_tickers /\ runs > 0 =>
        /\ Range(tickers) = LoggedTickers
        /\ \A t \in succeeded \ uncommitted :
              /\ \E r \in plog.rows : r.ticker = t
              /\ \A table \in TableNames : HasRowOf(table, t)
\* the same of the news pipeline: the articles the provider holds for the
\* ticker are stored and the ticker has a watermark row
NewsReplay ==
    news_use_failed /\ news_runs > 0 =>
        /\ Range(news_tickers) = LoggedTickers
        /\ \A t \in news_succeeded :
              /\ LogRows(newsLog, t) # {}
              /\ \A a \in provider[t] :
                    [ticker |-> t, published |-> a] \in newsTable.rows

\* C17: in both pipelines a replay run processes every distinct ticker of the
\* failure log, and a replayed ticker whose fetch and storage steps succeed ends
\* the replay with its data persisted and a watermark row.
C17_ReplayRecovers == MetadataReplay /\ NewsReplay

\* what the metadata pipeline does for a ticker of a delta load: without a
\* watermark row the ticker is processed as an init load, with one as a delta
\* load, and a ticker processed successfully has a watermark row
MetadataFallback ==
    /\ InTicker /\ load_type = "delta" =>
          mode = (IF get_last_run_timestamp(plog, ticker) = 0 THEN "init" ELSE "delta")
    /\ \A t \in succeeded : \E r \in plog.rows : r.ticker = t

MetadataFails == Len(failed_tickers') = Len(failed_tickers) + 1
NewsFails == Len(news_failed') = Len(news_failed) + 1

RowKept(old, new) == \A c \in DOMAIN old : c \in DOMAIN new /\ new[c] = old[c]

\* C22: no step of a run removes a stored row or changes the ticker it belongs
\* to; the step at which a ticker fails, and every step that processes another
\* ticker, leaves the rows a ticker has committed exactly as they are: a
\* failure rolls nothing back, in the run and after it.
C22_FailureRollsNothingBack ==
    [][\A table \in TableNames :
         /\ Len(db'[table].rows) >= Len(db[table].rows)
         /\ \A j \in 1..Len(db[table].rows) :
               LET old == db[table].rows[j]
                   new == db'[table].rows[j]
               IN  /\ new["ticker"] = old["ticker"]
                   /\ new["ticker_id"] = old["ticker_id"]
                   /\ (pc # "save" \/ MetadataFails
                          \/ old["ticker"] # <<"text", ticker>>) => RowKept(old, new)]_vars

\* C22 witness: the first run has ended; a ticker of it failed at the analyst
\* recommendations after its info and statements were committed, and those
\* rows are in their tables
C22_Witness ==
    /\ RunEnded
    /\ runs = 1
    /\ \E t \in Range(failed_tickers) \ uncommitted :
          /\ \A table \in {"company_info", "balance_sheet", "income_statement",
                            "cash_flow"} : HasRowOf(table, t)
          /\ ~HasRowOf("historical_data", t)

(***************************************************************************)
(* Claims on the provider failing in a run of the news pipeline, checked   *)
(* under SpecNews.                                                         *)
(***************************************************************************)
\* the step is a request the provider failed: it holds articles in the window
\* of the request, and the loop of fetch_articles ended with none collected
ProviderFailed ==
    /\ fetch_pc = "loop"
    /\ fetch_pc' = "sort"
    /\ Page(provider[news_ticker], from_date, to_date) # <<>>
    /\ Len(articles') <= Len(articles)
\* the phase that follows a phase of execute_company_pipeline
PhaseAfter(phase) == IF phase = "fwd" THEN "bwd" ELSE "store"

\* C23: a request the provider fails ends the loop of fetch_articles with the
\* articles collected so far kept; fetch_articles returns them, sorted; the
\* caller pools them and calls again, or leaves the phase when none came back.
\* None of these steps records the ticker as failed or writes the failure log.
C23_ProviderFailureEndsFetch ==
    [][/\ ProviderFailed =>
             /\ articles' = articles
             /\ all_articles' = all_articles
             /\ news_pc' = news_pc
             /\ news_failed' = news_failed /\ failLog' = failLog
       /\ fetch_pc = "sort" /\ fetch_pc' = "ret" =>
             /\ \A a \in ArticleTimes : Copies(articles', a) = Copies(articles, a)
             /\ Ascending(articles')
             /\ news_failed' = news_failed /\ failLog' = failLog
       /\ fetch_pc = "ret" /\ fetch_pc' = "out" =>
             /\ all_articles' = Extend(all_articles, articles)
             /\ news_pc' = IF articles # <<>> THEN news_pc ELSE PhaseAfter(news_pc)
             /\ news_idx' = news_idx
             /\ news_failed' = news_failed /\ failLog' = failLog]_vars

\* C23 witness: in the forward phase of a ticker the provider answered the
\* first request and failed the second; fetch_articles has returned the
\* articles of the first, and no ticker of the run is recorded as failed
C23_Witness ==
    /\ news_pc = "fwd"
    /\ fetch_pc = "ret"
    /\ Page(provider[news_ticker], from_date, to_date) # <<>>
    /\ total_requests = 1
    /\ issued = 2
    /\ articles # <<>>
    /\ news_failed = <<>>

(***************************************************************************)
(* Claims on the ticker_id of the rows of a run, checked under Spec.       *)
(***************************************************************************)
\* row j of the table was inserted or overwritten by the step
RowWritten(table, j) ==
    \/ j > Len(db[table].rows)
    \/ ~RowKept(db[table].rows[j], db'[table].rows[j])

\* C24: the hash seed does not change within a run, and every row a step of
\* the run inserts or overwrites belongs to the ticker being processed and
\* carries the ticker_id generate_id gives for that ticker in the process of
\* the run: all records of one ticker written during a run have one ticker_id.
C24_SameTickerIdInRun ==
    [][/\ runs' = runs => seed' = seed
       /\ \A table \in TableNames :
             \A j \in 1..Len(db'[table].rows) :
                RowWritten(table, j) =>
                   /\ db'[table].rows[j]["ticker"] = <<"text", ticker>>
                   /\ db'[table].rows[j]["ticker_id"]
                         = <<"itext", generate_id(seed, ticker)>>]_vars

\* C24 witness: the six entities of a ticker have been written in the first
\* run, and every table holds a row with the ticker_id of the ticker
C24_Witness ==
    /\ pc = "log"
    /\ runs = 1
    /\ \A table \in TableNames : HasRowOf(table, ticker)

(***************************************************************************)
(* Claims on the delta load of the news pipeline, checked under SpecNews.  *)
(***************************************************************************)
\* the watermark row of the ticker being processed
StoredRowOf(t) == CHOOSE r \in newsLog.rows : r.ticker = t

C26_WatermarkBoundsArticles ==
    news_pc \in {"idle", "returned"} =>
        \A a \in newsTable.rows :
            \E r \in LogRows(newsLog, a.ticker) :
                r.oldest.t <= a.published /\ a.published <= r.latest.t

\* C27: the step that ends the processing of a ticker with an empty pool
\* writes no article and leaves the watermark table as it is, and the ticker
\* is not failed; no step of the fetch phases writes an article or a
\* watermark row either.
C27_EmptyPoolWritesNothing ==
    [][/\ news_pc = "store" /\ all_articles = EmptyPool =>
             /\ newsTable' = newsTable
             /\ newsLog' = newsLog
             /\ news_failed' = news_failed /\ failLog' = failLog
             /\ news_succeeded' = news_succeeded \cup {news_ticker}
       /\ news_pc \in {"begin", "init", "fwd", "bwd"} =>
             newsTable' = newsTable /\ newsLog' = newsLog]_vars

\* C27 witness: a delta run has ended in which a ticker with a watermark row
\* pooled nothing: it has succeeded, has no stored article, and its row is there
C27_Witness ==
    /\ news_pc = "idle"
    /\ news_load_type = "delta"
    /\ \E t \in news_succeeded :
          /\ LogRows(newsLog, t) # {}
          /\ \A a \in newsTable.rows : a.ticker # t

(***************************************************************************)
(* Claims on the price bars of the metadata pipeline, checked under Spec.  *)
(* save_to_sqlite stores the bars of one call as one row of                *)
(* historical_data, whose period cell holds the periods of the bars.       *)
(***************************************************************************)
\* the periods of the bars a row of historical_data holds
BarsOf(row) ==
    IF "period" \in DOMAIN row /\ row["period"][1] = "rtext"
    THEN Range(row["period"][2]) ELSE {}
\* historical_data holds the bar of ticker t with period p
BarStored(t, p) ==
    \E j \in 1..Len(db["historical_data"].rows) :
        /\ db["historical_data"].rows[j]["ticker"] = <<"text", t>>
        /\ p \in BarsOf(db["historical_data"].rows[j])

C29_DeltaWritesOnlyLaterBars ==
    [][pc = "save" /\ ent = Len(Entities) /\ mode = "delta" =>
          LET stored == get_last_run_timestamp(plog, ticker)
          IN  /\ stored # 0
              /\ \A j \in 1..Len(db'["historical_data"].rows) :
                    RowWritten("historical_data", j) =>
                        \A p \in BarsOf(db'["historical_data"].rows[j]) : p > stored
              /\ \A j \in 1..Len(db["historical_data"].rows) :
                    (\E p \in BarsOf(db["historical_data"].rows[j]) : p <= stored)
                        => RowKept(db["historical_data"].rows[j],
                                   db'["historical_data"].rows[j])]_vars

\* C29 witness: the delta load of a ticker whose watermark is 1 has written a
\* row that holds the bar of period 2 and not the bar of period 1
C29_Witness ==
    /\ pc = "log"
    /\ mode = "delta"
    /\ last_run_timestamp = 1
    /\ \E j \in 1..Len(db["historical_data"].rows) :
          /\ db["historical_data"].rows[j]["ticker"] = <<"text", ticker>>
          /\ BarsOf(db["historical_data"].rows[j]) = {2}
    /\ \E j \in 1..Len(db["historical_data"].rows) :
          /\ db["historical_data"].rows[j]["ticker"] = <<"text", ticker>>
          /\ BarsOf(db["historical_data"].rows[j]) = {1}

(***************************************************************************)
(* Claims on the order of the tickers, checked under SpecStore: the        *)
(* save_to_sqlite calls of one process, in the order its loop makes them.  *)
(***************************************************************************)
\* the table as the last call leaves it when its ticker is processed alone,
\* on an empty database
CallAlone ==
    save_to_sqlite(NoTable, seed, lastCall.data, lastCall.ticker,
                   IdColumns(CallTable)).tbl
\* the rows of the table that belong to the ticker of the last call
CallTickerRows(tbl) ==
    {j \in 1..Len(tbl.rows) : tbl.rows[j]["ticker"] = <<"text", lastCall.ticker>>}

\* C30: the rows a ticker ends with do not depend on the tickers processed
\* before it: when the call that first writes the ticker to a table has been
\* applied, the rows of the ticker are the rows it has when processed alone.
C30_RowsIndependentOfOrder ==
    CallApplied /\ CallTickerRows(dbBefore[CallTable]) = {} =>
        /\ Cardinality(CallTickerRows(db[CallTable])) = Len(CallAlone.rows)
        /\ \A j \in CallTickerRows(db[CallTable]) :
              \E i \in 1..Len(CallAlone.rows) :
                 RowKept(CallAlone.rows[i], db[CallTable].rows[j])

(***************************************************************************)
(* Claims on the creation of a table, checked under SpecStore.  The key of *)
(* a table stands for its PRIMARY KEY (one key column) or its UNIQUE       *)
(* constraint (several).                                                   *)
(***************************************************************************)
\* the last call was made for a table that did not exist
CallCreates == calls > 0 /\ ~dbBefore[CallTable].exists
\* the table exists with the columns of the frame, the key columns NOT NULL
\* and under the key constraint, and holds the rows of the frame: one row per
\* key of the batch, with the values of the last record of that key
TableOfBatch ==
    LET tbl == db[CallTable]
    IN  /\ tbl.exists
        /\ DOMAIN tbl.cols = DOMAIN CallFrame.cols
        /\ tbl.notnull = Range(IdColumns(CallTable))
        /\ tbl.key = Range(IdColumns(CallTable))
        /\ \A i \in 1..Len(CallFrame.rows) :
              \E j \in 1..Len(tbl.rows) :
                 KeyMatch(tbl, tbl.rows[j], StoredRow(tbl, CallFrame, i))
        /\ \A j \in 1..Len(tbl.rows) :
              CallMatches(tbl.rows[j]) # {} /\ tbl.rows[j] = CallRecord(tbl.rows[j])
\* the batch of the last call makes a frame that has every key column, with a
\* value in every row
CallHasKeyValues ==
    /\ ~SaveRaises(lastCall.data)
    /\ CreateOk(CallFrame, IdColumns(CallTable))
    /\ \A i \in 1..Len(CallFrame.rows) :
          \A c \in Range(IdColumns(CallTable)) : CallFrame.rows[i][c] # Null

\* C31: after a save_to_sqlite call that returned, made for a table that did
\* not exist, the table exists with exactly the fields of the batch, ticker and
\* ticker_id as columns, the key columns NOT NULL and constrained, and the
\* batch's rows stored.
C31_CreatesTable == CallCreates /\ ~lastRes.raised => TableOfBatch

\* what does hold: the same for a batch that holds every key column with a
\* value in every record; for a batch that lacks a key column no table exists
\* after the call, and the call does not raise for it.
CreatesTableOfKeyedBatch ==
    /\ CallCreates /\ CallHasKeyValues => TableOfBatch /\ CallApplied
    /\ CallCreates /\ ~SaveRaises(lastCall.data)
          /\ ~CreateOk(CallFrame, IdColumns(CallTable)) =>
             ~db[CallTable].exists /\ ~lastRes.raised /\ ~lastRes.committed

\* a batch of two records created a table with a two-column key
CreatedKeyedTable ==
    /\ CallCreates
    /\ CallHasKeyValues
    /\ Len(IdColumns(CallTable)) = 2
    /\ db[CallTable].exists
    /\ Len(db[CallTable].rows) = 2

(***************************************************************************)
(* Claims on the dates fetch_articles returns, checked under SpecFetch.    *)
(***************************************************************************)
MinOf(S) == CHOOSE x \in S : \A y \in S : x <= y
\* the returned latest_date is the maximum of from_date and the published
\* times of the returned articles, the returned oldest_date the minimum of
\* to_date and those times
SeenDatesExact ==
    /\ latest_date.t = MaxOf({from_date.t} \cup Range(articles))
    /\ oldest_date.t = MinOf({to_date.t} \cup Range(articles))

\* C32: when fetch_articles has returned, its latest_date is the maximum of
\* from_date and the published times of the articles it returns and its
\* oldest_date the minimum of to_date and those times; so latest_date >=
\* from_date and oldest_date <= to_date, with equality when it returns none.
C32_SeenDatesBoundArticles ==
    FetchReturned =>
        /\ SeenDatesExact
        /\ latest_date.t >= from_date.t
        /\ oldest_date.t <= to_date.t
        /\ articles = <<>> => latest_date = from_date /\ oldest_date = to_date

\* what does hold: the same for a call whose from_date and to_date are both
\* timezone-aware
SeenDatesOfAwareWindow ==
    FetchReturned /\ from_date.aw /\ to_date.aw => SeenDatesExact


(***************************************************************************)
(* The storage class of numeric columns, checked under SpecStore.          *)
(***************************************************************************)
\* the columns of the last batch that pandas reads as int64 or float64
CallColumns == Wrapped(lastCall.data.items)
NumericColumns ==
    {c \in DOMAIN CallColumns : Dtype(CallColumns[c]) \in {"int64", "float64"}}
\* the columns of the last batch that hold a float
FloatColumns ==
    {c \in DOMAIN CallColumns :
        \E i \in 1..Len(CallColumns[c]) : CallColumns[c][i][1] = "float"}

\* C33: every int64 or float64 column of a batch is written as a float64 column:
\* it is declared REAL when the call creates or adds it, and every cell the call
\* writes has the storage class that the declared type of the column gives a
\* real (or is NULL for a missing value), whether the batch held ints or floats.
C33_NumericStoredAsReal ==
    CallApplied =>
        \A c \in NumericColumns :
            /\ CallFrame.cols[c] = "REAL"
            /\ c \notin DOMAIN dbBefore[CallTable].cols
                  => db[CallTable].cols[c] = "REAL"
            /\ \A j \in CallWritten :
                  db[CallTable].rows[j][c][1] \in
                      {Affinity(db[CallTable].cols[c], <<"real", 0>>)[1], "null"}

\* C33 witness: a batch of floats has overwritten, in a REAL column, the real
\* that a batch of ints had stored for the same ticker, with a real again.
C33_Witness ==
    /\ CallApplied
    /\ lastCall.table = "company_info"
    /\ "a" \in FloatColumns \cap NumericColumns
    /\ dbBefore[CallTable].exists
    /\ "a" \in DOMAIN dbBefore[CallTable].cols
    /\ db[CallTable].cols["a"] = "REAL"
    /\ \E j \in CallWritten :
          /\ j <= Len(dbBefore[CallTable].rows)
          /\ dbBefore[CallTable].rows[j]["a"] = <<"real", 1>>
          /\ db[CallTable].rows[j]["a"] = <<"real", 2>>

====
